---- MODULE Spec2Model ----
(***************************************************************************)
(* Cost Query Resolution & Caching Engine (costReportHandler) and the      *)
(* Deferred Processor (the DynamoDB-stream handler), with the two tables   *)
(* they share: the Cost Explorer cache and the report-request ledger.      *)
(***************************************************************************)
EXTENDS Integers, Sequences, FiniteSets, TLC

\* ---------------------------------------------------------------- bounds
\* Engine invocations (costReportHandler calls) in one behaviour.
MaxCalls == 2
\* Engine invocations that may be in flight at the same time.
NumEngines == 1
\* Clock ticks in one behaviour; each tick advances the clock by TickHours.
MaxTicks == 1

\* Engine invocations in flight at the same time when the synchronous paths
\* are taken on their own.
MaxConcurrent == 2

\* External calls (store reads and writes, billing fetches, narrative and
\* rendering, mail) that fail in one behaviour.
MaxFaults == 2

\* ------------------------------------------------------ program constants
\* maxAgeMs = 12 * 60 * 60 * 1000, in hours
MaxAgeHours == 12
\* DynamoEventSource batchSize / retryAttempts
BatchSize == 5
RetryAttempts == 2
\* default windows: Engine `parsedQuery.days || 7`, Processor `getDate() - 14`
EngineDefaultDays == 7
ProcessorDefaultDays == 14

\* the clock advances half a day at a time
TickHours == 24 \div 2

\* ------------------------------------------------------------- calendar
\* A Date object is a number of hours since 2024-01-01T00:00Z (the Lambda
\* runtime's time zone is UTC). A calendar date string "YYYY-MM-DD" of the
\* request is the record [y, m, d] of its three numbers.

IsLeap(y) == (y % 4 = 0 /\ y % 100 # 0) \/ y % 400 = 0

DaysInMonth(y, m) ==
    IF m \in {4, 6, 9, 11} THEN 30
    ELSE IF m = 2 THEN (IF IsLeap(y) THEN 29 ELSE 28)
    ELSE 31

DaysInYear(y) == IF IsLeap(y) THEN 366 ELSE 365

RECURSIVE DaysBeforeYear(_)
DaysBeforeYear(y) ==
    IF y <= 2024 THEN 0 ELSE DaysBeforeYear(y - 1) + DaysInYear(y - 1)

RECURSIVE DaysBeforeMonth(_, _)
DaysBeforeMonth(y, m) ==
    IF m <= 1 THEN 0 ELSE DaysBeforeMonth(y, m - 1) + DaysInMonth(y, m - 1)

\* new Date(y, m, d) with the month already in 1..12
DayNumber(y, m, d) == DaysBeforeYear(y) + DaysBeforeMonth(y, m) + (d - 1)

RECURSIVE YearOfDay(_, _)
YearOfDay(day, y) ==
    IF day < DaysInYear(y) THEN [y |-> y, rest |-> day]
    ELSE YearOfDay(day - DaysInYear(y), y + 1)

RECURSIVE MonthOfDay(_, _, _)
MonthOfDay(rest, y, m) ==
    IF rest < DaysInMonth(y, m) THEN [m |-> m, d |-> rest + 1]
    ELSE MonthOfDay(rest - DaysInMonth(y, m), y, m + 1)

\* getFullYear / getMonth / getDate of a day number
Ymd(day) ==
    LET yy == YearOfDay(day, 2024)
        md == MonthOfDay(yy.rest, yy.y, 1)
    IN  [y |-> yy.y, m |-> md.m, d |-> md.d]

DayOf(t) == t \div 24

Pad2(n) == IF n < 10 THEN "0" \o ToString(n) ELSE ToString(n)

\* date.toISOString().split("T")[0]: the time of day is dropped
IsoDate(t) ==
    LET c == Ymd(DayOf(t))
    IN  ToString(c.y) \o "-" \o Pad2(c.m) \o "-" \o Pad2(c.d)

NoDate == [y |-> 0, m |-> 0, d |-> 0]

\* new Date("YYYY-MM-DD"): midnight UTC of that day
NewDateFromString(s) == DayNumber(s.y, s.m, s.d) * 24

\* new Date(year, monthIndex, 1) where monthIndex = getMonth() + delta may
\* leave 0..11: the Date constructor carries into the year
FirstOfMonth(y, m) ==
    IF m < 1 THEN DayNumber(y - 1, m + 12, 1) * 24
    ELSE IF m > 12 THEN DayNumber(y + 1, m - 12, 1) * 24
    ELSE DayNumber(y, m, 1) * 24

\* d.setDate(d.getDate() - days): same time of day, `days` days earlier
SetDateBack(t, days) == t - days * 24

\* ------------------------------------------------------------ requests
NoStr == "<absent>"

\* The intent tags the translator is told to emit, plus the comparison tag
\* isMonthComparisonRequest looks for; and the words the handlers test with
\* intent.includes(...) after toLowerCase().
IntentWords ==
    ("resource level breakdown" :> {"resource"}) @@
    ("monthly resource breakdown" :> {"resource", "month"}) @@
    ("monthly billing" :> {"month"}) @@
    ("daily billing" :> {}) @@
    ("compare months" :> {"compare", "month"}) @@
    ("scheduled cost report" :> {"schedule"}) @@
    ("anomaly report" :> {}) @@
    ("" :> {})

Includes(intent, word) == word \in IntentWords[intent]

\* JS truthiness of the optional fields of a parsed query
HasDate(s) == s # NoDate
Truthy(str) == str # NoStr /\ str # ""

\* getDateRange with the test for `days` ahead of the test for a month
getDateRangeDaysFirst(parsedQuery, t) ==
    IF HasDate(parsedQuery.startDate) /\ HasDate(parsedQuery.endDate)
    THEN [start |-> NewDateFromString(parsedQuery.startDate),
          end   |-> NewDateFromString(parsedQuery.endDate)]
    ELSE IF parsedQuery.days # 0
    THEN [start |-> SetDateBack(t, parsedQuery.days), end |-> t]
    ELSE IF Includes(parsedQuery.intent, "month")
    THEN LET c == Ymd(DayOf(t))
         IN  [start |-> FirstOfMonth(c.y, c.m - 1),
              end   |-> FirstOfMonth(c.y, c.m)]
    ELSE [start |-> SetDateBack(t, EngineDefaultDays), end |-> t]

\* getDateRange(parsedQuery), evaluated at time t (new Date() = t)
getDateRange(parsedQuery, t) ==
    IF HasDate(parsedQuery.startDate) /\ HasDate(parsedQuery.endDate)
    THEN [start |-> NewDateFromString(parsedQuery.startDate),
          end   |-> NewDateFromString(parsedQuery.endDate)]
    ELSE IF Includes(parsedQuery.intent, "month")
    THEN LET c == Ymd(DayOf(t))
         IN  [start |-> FirstOfMonth(c.y, c.m - 1),
              end   |-> FirstOfMonth(c.y, c.m)]
    ELSE LET days == IF parsedQuery.days # 0 THEN parsedQuery.days
                     ELSE EngineDefaultDays
         IN  [start |-> SetDateBack(t, days), end |-> t]

\* The Processor's own window: "Determine date range"
ProcessorDateRange(parsedQuery, t) ==
    IF HasDate(parsedQuery.startDate) /\ HasDate(parsedQuery.endDate)
    THEN [start |-> NewDateFromString(parsedQuery.startDate),
          end   |-> NewDateFromString(parsedQuery.endDate)]
    ELSE IF parsedQuery.days # 0
    THEN [start |-> SetDateBack(t, parsedQuery.days), end |-> t]
    ELSE [start |-> SetDateBack(t, ProcessorDefaultDays), end |-> t]

\* ------------------------------------------------------------ cache keys
\* An object literal is the sequence of its <<name, value>> fields in
\* insertion order; JSON.stringify writes them in that order.
RECURSIVE JoinFields(_)
JoinFields(obj) ==
    IF obj = <<>> THEN ""
    ELSE "\"" \o obj[1][1] \o "\":" \o obj[1][2]
         \o (IF Len(obj) > 1 THEN "," ELSE "") \o JoinFields(Tail(obj))

JsonStringify(obj) == "{" \o JoinFields(obj) \o "}"

JsonString(s) == "\"" \o s \o "\""

GroupByJson(key) == "[{\"Type\":\"DIMENSION\",\"Key\":\"" \o key \o "\"}]"

\* Buffer.from(keyString).toString('base64'): one-to-one on strings
Base64(keyString) == "b64:" \o keyString

generateCacheKey(params) == Base64(JsonStringify(params))

\* the object the Engine builds for start/end/groupBy/granularity, with
\* specialRequirements added when truthy
EngineKeyParams(parsedQuery, range, groupByKey, granularity) ==
    << <<"start", JsonString(IsoDate(range.start))>>,
       <<"end", JsonString(IsoDate(range.end))>>,
       <<"groupBy", GroupByJson(groupByKey)>>,
       <<"granularity", JsonString(granularity)>> >>
    \o (IF Truthy(parsedQuery.specialRequirements)
        THEN << <<"specialRequirements",
                  JsonString(parsedQuery.specialRequirements)>> >>
        ELSE <<>>)

\* costReportHandler, resource branch: resourceCacheKey
resourceCacheKey(parsedQuery, t) ==
    generateCacheKey(
        EngineKeyParams(parsedQuery, getDateRange(parsedQuery, t),
                        "RESOURCE_ID", "DAILY"))

\* costReportHandler, standard branch: cacheKey
standardCacheKey(parsedQuery, t) ==
    generateCacheKey(
        EngineKeyParams(parsedQuery, getDateRange(parsedQuery, t), "SERVICE",
                        IF Includes(parsedQuery.intent, "month")
                        THEN "MONTHLY" ELSE "DAILY"))

\* Processor: cacheKeyObj and cacheKey
ProcessorCacheKey(parsedQuery, t) ==
    LET range == ProcessorDateRange(parsedQuery, t)
    IN  Base64(JsonStringify(
            << <<"start", JsonString(IsoDate(range.start))>>,
               <<"end", JsonString(IsoDate(range.end))>>,
               <<"groupBy", GroupByJson("RESOURCE_ID")>>,
               <<"granularity", JsonString("DAILY")>> >>))

\* ---------------------------------------------------- comparison periods
\* toFullMonthPeriod without the Date constructor's carry into the year
toFullMonthPeriodSameYear(period) ==
    LET start == NewDateFromString(period.start)
        c == Ymd(DayOf(start))
    IN  [start |-> [y |-> c.y, m |-> c.m, d |-> 1],
         end |-> [y |-> c.y, m |-> (c.m % 12) + 1, d |-> 1]]

\* toFullMonthPeriod(period): the calendar month that holds period.start,
\* as {start: first of the month, end: first of the next month}; period.end
\* is not read
toFullMonthPeriod(period) ==
    LET start == NewDateFromString(period.start)
        c == Ymd(DayOf(start))
        coercedStart == FirstOfMonth(c.y, c.m)
        coercedEnd == FirstOfMonth(c.y, c.m + 1)
    IN  [start |-> Ymd(DayOf(coercedStart)), end |-> Ymd(DayOf(coercedEnd))]

\* prepareComparisonPeriods that keeps the order the periods were passed in
prepareComparisonPeriodsAsPassed(period1, period2) ==
    [baseline |-> toFullMonthPeriod(period1),
     comparison |-> toFullMonthPeriod(period2)]

\* prepareComparisonPeriods(period1, period2)
prepareComparisonPeriods(period1, period2) ==
    LET normalizedPeriod1 == toFullMonthPeriod(period1)
        normalizedPeriod2 == toFullMonthPeriod(period2)
    IN  IF NewDateFromString(normalizedPeriod1.start)
               < NewDateFromString(normalizedPeriod2.start)
        THEN [baseline |-> normalizedPeriod1, comparison |-> normalizedPeriod2]
        ELSE [baseline |-> normalizedPeriod2, comparison |-> normalizedPeriod1]

\* isMonthComparisonRequest(parsedQuery)
isMonthComparisonRequest(parsedQuery) ==
    Includes(parsedQuery.intent, "compare")
    /\ Includes(parsedQuery.intent, "month")

\* JSON of a {start, end} period of calendar date strings
PeriodJson(period) ==
    JsonStringify(
        << <<"start", JsonString(IsoDate(NewDateFromString(period.start)))>>,
           <<"end", JsonString(IsoDate(NewDateFromString(period.end)))>> >>)

\* costReportHandler, comparison branch: comparisonCacheKeyParams and
\* cacheKey, for the ordered pair of periods
comparisonCacheKey(parsedQuery, periods) ==
    generateCacheKey(
        << <<"type", JsonString("comparison")>>,
           <<"baseline", PeriodJson(periods.baseline)>>,
           <<"comparison", PeriodJson(periods.comparison)>>,
           <<"metricForComparison", JsonString("UnblendedCost")>>,
           <<"granularity", JsonString("MONTHLY")>>,
           <<"groupBy", GroupByJson("SERVICE")>> >>
        \o (IF Truthy(parsedQuery.specialRequirements)
            THEN << <<"specialRequirements",
                      JsonString(parsedQuery.specialRequirements)>> >>
            ELSE <<>>))

\* ---------------------------------------------------------------- state
VARIABLES
    now,      \* wall clock, hours since 2024-01-01T00:00Z
    ticks,    \* clock ticks taken
    cache,    \* CostExplorerCache table: cacheKey -> item
    ledger,   \* CostReportRequests table: the set of its items
    stream,   \* the ledger table's change feed (NEW_IMAGE records), in order
    shard,    \* the event source mapping: position, retries of the batch
    proc,     \* the Deferred Processor invocation in progress
    eng,      \* the Engine invocations (costReportHandler), one per slot
    calls,    \* Engine invocations started
    serial,   \* values handed out so far (uuidv4, fetched data, narratives)
    outbox,   \* SES: the notifications sent, in order
    ceCalls,  \* Billing Data Source calls made
    lastGen,  \* the Generated response that was the last thing to happen
    faults,   \* external calls that have failed
    kin,      \* key derivation on its own: the parsed query and the time
    kout,     \* ... and the keys the Engine and the Processor derive
    store     \* the reports bucket: the URLs of the objects put into it

vars == <<now, ticks, cache, ledger, stream, shard, proc, eng, calls, serial,
          outbox, ceCalls, lastGen, faults, kin, kout, store>>

system == <<now, ticks, cache, ledger, stream, shard, proc, eng, calls,
            serial, outbox, ceCalls, lastGen, faults, store>>
keys == <<kin, kout>>

StartNow == DayNumber(2024, 6, 15) * 24 + 12

REPORT_STATUS_PENDING == "PENDING"
REPORT_STATUS_ERROR == "ERROR"

Engines == 1 .. NumEngines

Emails == {NoStr, "dev@example.com"}
CallerRequestIds == {NoStr, "req-1"}

NoPeriod == [start |-> NoDate, end |-> NoDate]

Query(intent, startDate, endDate, days, specialRequirements) ==
    [intent |-> intent, startDate |-> startDate, endDate |-> endDate,
     days |-> days, specialRequirements |-> specialRequirements,
     period1 |-> NoPeriod, period2 |-> NoPeriod, cronExpression |-> NoStr]

\* the parsed queries the Engine is called with
Queries ==
    { Query("resource level breakdown", NoDate, NoDate, 3, NoStr),
      Query("resource level breakdown", NoDate, NoDate, 0, "by team"),
      Query("monthly billing", NoDate, NoDate, 0, NoStr) }

NoGen == [parsedQuery |-> Query("", NoDate, NoDate, 0, NoStr), reportUrl |-> NoStr]

\* ------------------------------------------------------------- DDBUtils
MissResult == [hit |-> FALSE, data |-> NoStr, reportUrl |-> NoStr,
               summary |-> NoStr]

\* getCache with a catch that reports a hit instead of a miss
getCacheHitOnError(table, cacheKey, t, readOk) ==
    IF readOk /\ cacheKey \in DOMAIN table
       /\ t - table[cacheKey].timestamp < MaxAgeHours
    THEN [hit |-> TRUE, data |-> table[cacheKey].data,
          reportUrl |-> table[cacheKey].reportUrl,
          summary |-> table[cacheKey].summary]
    ELSE [MissResult EXCEPT !.hit = ~readOk]

\* getCache without the test of the entry's age
getCacheIgnoringAge(table, cacheKey, t, readOk) ==
    IF readOk /\ cacheKey \in DOMAIN table
    THEN [hit |-> TRUE, data |-> table[cacheKey].data,
          reportUrl |-> table[cacheKey].reportUrl,
          summary |-> table[cacheKey].summary]
    ELSE MissResult

\* DDBUtils.getCache({cacheKey}) against table contents `table` at time t;
\* readOk = FALSE is a GetItem that throws (caught, logged, reported a miss)
getCache(table, cacheKey, t, readOk) ==
    IF readOk /\ cacheKey \in DOMAIN table
       /\ t - table[cacheKey].timestamp < MaxAgeHours
    THEN [hit |-> TRUE, data |-> table[cacheKey].data,
          reportUrl |-> table[cacheKey].reportUrl,
          summary |-> table[cacheKey].summary]
    ELSE MissResult

\* setCache that leaves the report URL out of the item
setCacheWithoutUrl(table, cacheKey, data, reportUrl, costSummaryText, t) ==
    [k \in DOMAIN table \cup {cacheKey} |->
        IF k = cacheKey
        THEN [data |-> data, reportUrl |-> NoStr, timestamp |-> t,
              ttl |-> t + MaxAgeHours, summary |-> costSummaryText]
        ELSE table[k]]

\* setCache as an update that keeps the data of an entry already there
setCacheMerging(table, cacheKey, data, reportUrl, costSummaryText, t) ==
    [k \in DOMAIN table \cup {cacheKey} |->
        IF k = cacheKey
        THEN [data |-> IF k \in DOMAIN table THEN table[k].data ELSE data,
              reportUrl |-> reportUrl, timestamp |-> t,
              ttl |-> t + MaxAgeHours, summary |-> costSummaryText]
        ELSE table[k]]

\* the table after DDBUtils.setCache's PutItem
setCache(table, cacheKey, data, reportUrl, costSummaryText, t) ==
    [k \in DOMAIN table \cup {cacheKey} |->
        IF k = cacheKey
        THEN [data |-> data, reportUrl |-> reportUrl, timestamp |-> t,
              ttl |-> t + MaxAgeHours, summary |-> costSummaryText]
        ELSE table[k]]

HasRow(items, requestId) == \E it \in items : it.requestId = requestId
Row(items, requestId) == CHOOSE it \in items : it.requestId = requestId

\* the item DDBUtils.saveReport puts
ReportItem(requestId, userCommand, parsedJsonQuery, reportUrl,
           costSummaryText, email, t) ==
    [requestId |-> requestId, userCommand |-> userCommand,
     parsedJsonQuery |-> parsedJsonQuery, reportUrl |-> reportUrl,
     summary |-> costSummaryText, costSummaryText |-> NoStr,
     createdAt |-> t, email |-> IF Truthy(email) THEN email ELSE NoStr]

\* PutItem: the item replaces whatever item has its key
PutItem(items, item) ==
    {it \in items : it.requestId # item.requestId} \cup {item}

\* saveReport that adds the item next to the one already there
saveReportAddsRow(items, item) == items \cup {item}

\* the table after DDBUtils.saveReport
saveReport(items, item) == PutItem(items, item)

\* the item after DDBUtils.updateReportStatus's
\* "SET reportUrl = :u, costSummaryText = :t"
UpdatedItem(item, reportUrl, costSummaryText) ==
    [item EXCEPT !.reportUrl = reportUrl,
                 !.costSummaryText = costSummaryText]

\* the table after DDBUtils.updateReportStatus (UpdateItem on a row that
\* exists: rows are never deleted)
updateReportStatus(items, requestId, reportUrl, costSummaryText) ==
    PutItem(items, UpdatedItem(Row(items, requestId), reportUrl,
                               costSummaryText))

\* a change feed that reports every write as an INSERT
StreamAfterAsInsert(records, before, after, requestId) ==
    Append(records, [eventName |-> "INSERT",
                     NewImage |-> Row(after, requestId)])

\* The change feed (StreamViewType.NEW_IMAGE): a write that creates the item
\* is an INSERT record, one that changes an existing item is a MODIFY
\* record, one that changes nothing leaves no record.
StreamAfter(records, before, after, requestId) ==
    IF ~HasRow(before, requestId)
    THEN Append(records, [eventName |-> "INSERT",
                          NewImage |-> Row(after, requestId)])
    ELSE IF Row(before, requestId) # Row(after, requestId)
    THEN Append(records, [eventName |-> "MODIFY",
                          NewImage |-> Row(after, requestId)])
    ELSE records

\* ---------------------------------------------------------------- Init
NoPeriods == [baseline |-> NoPeriod, comparison |-> NoPeriod]

IdleEngine ==
    [pc |-> "idle", parsedQuery |-> NoGen.parsedQuery, userEmail |-> NoStr,
     requestId |-> NoStr, cacheKey |-> NoStr, cached |-> FALSE,
     data |-> NoStr, reportUrl |-> NoStr, summary |-> NoStr,
     response |-> [kind |-> NoStr, reportUrl |-> NoStr, needEmail |-> FALSE],
     readThrew |-> FALSE, fetches |-> 0, follows |-> NoStr, threw |-> NoStr,
     lookups |-> 0, periods |-> NoPeriods]

NoKeys == [done |-> FALSE, engine |-> NoStr, processor |-> NoStr]

IdleProc ==
    [pc |-> "idle", from |-> 0, to |-> 0, i |-> 0, requestId |-> NoStr,
     email |-> NoStr, cacheKey |-> NoStr, data |-> NoStr,
     finalReportUrl |-> NoStr, costSummaryText |-> NoStr,
     errMessage |-> NoStr]

SystemInit ==
    /\ now = StartNow
    /\ ticks = 0
    /\ cache = <<>>
    /\ ledger = {}
    /\ stream = <<>>
    /\ shard = [pos |-> 0, attempts |-> 0, retryTo |-> 0]
    /\ proc = IdleProc
    /\ eng = [e \in Engines |-> IdleEngine]
    /\ calls = 0
    /\ serial = 0
    /\ outbox = <<>>
    /\ ceCalls = 0
    /\ lastGen = NoGen
    /\ faults = 0
    /\ store = {}

Init ==
    /\ SystemInit
    /\ kin = [parsedQuery |-> NoGen.parsedQuery, t |-> StartNow]
    /\ kout = NoKeys

\* an external call succeeds (ok) or fails; failures are counted
Outcome(ok) ==
    /\ ok \/ faults < MaxFaults
    /\ faults' = IF ok THEN faults ELSE faults + 1
    /\ UNCHANGED keys

\* s3.send(new PutObjectCommand(...)) that reports success without keeping
\* the object
PutObjectLost(objects, url) == objects

\* the bucket after an awaited s3.send(new PutObjectCommand(...)) of the
\* PDF whose URL is CF_URL/pdfKey
PutObject(objects, url) == objects \cup {url}

\* ------------------------------------------------ mainHandler: dispatch
\* the keys of INTENT_HANDLERS
INTENT_HANDLERS == {"scheduled", "resource", "monthly", "daily"}

\* identifyIntent(parsedQuery).type
identifyIntent(parsedQuery) ==
    LET intent == parsedQuery.intent
    IN  IF intent \in INTENT_HANDLERS THEN intent
        ELSE IF Includes(intent, "schedule") \/ Includes(intent, "recurring")
        THEN "scheduled"
        ELSE IF Includes(intent, "resource") THEN "resource"
        ELSE IF Includes(intent, "month") THEN "monthly"
        ELSE "UNKNOWN"

\* validateParsedQuery(parsedQuery, intentType) throws: the validator is
\* looked up in `validations` under the name intentType
validateParsedQuery(parsedQuery, intentType) ==
    IF intentType = "SCHEDULED_COST_REPORT"
    THEN ~Truthy(parsedQuery.cronExpression)
    ELSE IF intentType = "RESOURCE_BREAKDOWN"
    THEN parsedQuery.days # 0
         /\ (parsedQuery.days < 1 \/ parsedQuery.days > 14)
    ELSE IF intentType = "BILLING_REPORT"
    THEN /\ HasDate(parsedQuery.startDate) /\ HasDate(parsedQuery.endDate)
         /\ NewDateFromString(parsedQuery.startDate)
                > NewDateFromString(parsedQuery.endDate)
    ELSE FALSE

\* what mainHandler does with a parsed query: the 400 for an unknown
\* intent, the error of a failed validation, or the call of the handler
mainHandler(parsedQuery) ==
    LET intentResult == identifyIntent(parsedQuery)
    IN  IF intentResult = "UNKNOWN" THEN "UNKNOWN"
        ELSE IF validateParsedQuery(parsedQuery, intentResult)
        THEN "ValidationError"
        ELSE IF intentResult = "scheduled" THEN "handleScheduledCostReport"
        ELSE "costReportHandler"

\* --------------------------------------------------- Engine: the handler
Uuid(n) == "uuid-" \o ToString(n)
\* the n-th answer of the Billing Data Source, and a narrative written for
\* a report
CostData(n) == "ce-" \o ToString(n)
Narrative(of) == "summary of " \o of
ArtifactUrl(name) == "https://cf/cost-reports/" \o name \o ".pdf"

Response(kind, reportUrl, needEmail) ==
    [kind |-> kind, reportUrl |-> reportUrl, needEmail |-> needEmail]

\* the call returns: only what the caller sees (and the call's own tally)
\* outlives it
Returned(call, response) ==
    [IdleEngine EXCEPT !.pc = "done", !.parsedQuery = call.parsedQuery,
                       !.requestId = call.requestId,
                       !.response = response, !.cached = call.cached,
                       !.readThrew = call.readThrew,
                       !.fetches = call.fetches, !.follows = call.follows,
                       !.threw = call.threw, !.lookups = call.lookups]

Finish(e, response) ==
    eng' = [eng EXCEPT ![e] = Returned(eng[e], response)]

\* an awaited call threw: nothing in costReportHandler catches it, and
\* mainHandler's catch answers with the error
Fail(e, what) ==
    eng' = [eng EXCEPT ![e] = Returned([eng[e] EXCEPT !.threw = what],
                                       Response("Error", NoStr, FALSE))]

\* the handler without its branch for resource-level intents
AfterCacheLookupInline(started, cacheResult, isResource) ==
    IF cacheResult.hit /\ Truthy(cacheResult.reportUrl)
    THEN Returned(started, Response("Ready", cacheResult.reportUrl, FALSE))
    ELSE IF cacheResult.hit
    THEN [started EXCEPT !.pc = "generate"]
    ELSE [started EXCEPT !.pc = "fetch"]

\* where costReportHandler goes after the cache lookup: the answer from the
\* cache on a hit that carries a report URL; on the resource branch the
\* ledger write; on the standard branch the fetch, or on a hit without a
\* URL the generation from the cached data
AfterCacheLookup(started, cacheResult, isResource) ==
    IF cacheResult.hit /\ Truthy(cacheResult.reportUrl)
    THEN Returned(started, Response("Ready", cacheResult.reportUrl, FALSE))
    ELSE IF isResource
    THEN [started EXCEPT !.pc = "saveReport"]
    ELSE IF cacheResult.hit
    THEN [started EXCEPT !.pc = "generate"]
    ELSE [started EXCEPT !.pc = "fetch"]

\* the comparison branch's test of its periods, with the test of period2
\* left out
InvalidPeriodsFirstOnly(parsedQuery) ==
    \/ ~HasDate(parsedQuery.period1.start)
    \/ ~HasDate(parsedQuery.period1.end)

\* the comparison branch's test of its periods that also turns away two
\* equal periods
InvalidPeriodsOrEqual(parsedQuery) ==
    \/ \E period \in {parsedQuery.period1, parsedQuery.period2} :
          ~HasDate(period.start) \/ ~HasDate(period.end)
    \/ parsedQuery.period1 = parsedQuery.period2

\* comparison branch: `!period1 || !period2 || !period1.start || ...`
InvalidPeriods(parsedQuery) ==
    \E period \in {parsedQuery.period1, parsedQuery.period2} :
        \/ period = NoPeriod
        \/ ~HasDate(period.start)
        \/ ~HasDate(period.end)

\* costReportHandler up to and including its cache lookup: requestId
\* defaulting, on the comparison branch the test and the ordering of the
\* periods, the date range, the cache key, ddbUtils.getCache, and the
\* return on a hit that carries a report URL. A comparison request with
\* invalid periods is answered 400 before anything is read.
CallCostReportHandler(e, parsedQuery, userEmail, requestIdArg, readOk) ==
    /\ Outcome(readOk)
    /\ calls < MaxCalls
    /\ eng[e].pc \in {"idle", "done"}
    /\ mainHandler(parsedQuery) = "costReportHandler"
    /\ LET fresh == ~Truthy(requestIdArg)
           requestId == IF fresh THEN Uuid(serial + 1) ELSE requestIdArg
           isComparison == isMonthComparisonRequest(parsedQuery)
           isResource == ~isComparison
                         /\ Includes(parsedQuery.intent, "resource")
           called == [IdleEngine EXCEPT
                         !.parsedQuery = parsedQuery,
                         !.userEmail = userEmail,
                         !.requestId = requestId,
                         !.follows = IF lastGen.parsedQuery = parsedQuery
                                     THEN lastGen.reportUrl ELSE NoStr]
       IN  /\ serial' = IF fresh THEN serial + 1 ELSE serial
           /\ IF isComparison /\ InvalidPeriods(parsedQuery)
              THEN /\ readOk
                   /\ eng' = [eng EXCEPT ![e] =
                         Returned(called, Response("Invalid", NoStr, FALSE))]
              ELSE LET periods ==
                           IF isComparison
                           THEN prepareComparisonPeriods(parsedQuery.period1,
                                                         parsedQuery.period2)
                           ELSE NoPeriods
                       cacheKey ==
                           IF isComparison
                           THEN comparisonCacheKey(parsedQuery, periods)
                           ELSE IF isResource
                           THEN resourceCacheKey(parsedQuery, now)
                           ELSE standardCacheKey(parsedQuery, now)
                       cacheResult == getCache(cache, cacheKey, now, readOk)
                       started == [called EXCEPT
                                      !.periods = periods,
                                      !.cacheKey = cacheKey,
                                      !.lookups = 1,
                                      !.cached = cacheResult.hit,
                                      !.data = cacheResult.data,
                                      !.readThrew = ~readOk]
                   IN  eng' = [eng EXCEPT ![e] =
                           AfterCacheLookup(started, cacheResult, isResource)]
    /\ calls' = calls + 1
    /\ UNCHANGED store
    /\ lastGen' = NoGen
    /\ UNCHANGED <<now, ticks, cache, ledger, stream, shard, proc, outbox,
                   ceCalls>>

\* resource branch: saveReportToDynamo with PENDING, then the 202 / 200
\* answer; a PutItem that throws leaves the table alone and the error
\* reaches mainHandler's catch
SaveReportStep(e, writeOk) ==
    /\ Outcome(writeOk)
    /\ eng[e].pc = "saveReport"
    /\ IF writeOk
       THEN LET item == ReportItem(eng[e].requestId, "cmd",
                            eng[e].parsedQuery, REPORT_STATUS_PENDING,
                            REPORT_STATUS_PENDING, eng[e].userEmail, now)
                after == saveReport(ledger, item)
            IN  /\ ledger' = after
                /\ stream' = StreamAfter(stream, ledger, after,
                                         eng[e].requestId)
                /\ Finish(e, Response("Accepted", NoStr,
                                      ~Truthy(eng[e].userEmail)))
       ELSE /\ Fail(e, "saveReport")
            /\ UNCHANGED <<ledger, stream>>
    /\ UNCHANGED store
    /\ lastGen' = NoGen
    /\ UNCHANGED <<now, ticks, cache, shard, proc, calls, serial, outbox,
                   ceCalls>>

\* the fetch with a second attempt after a failure
FetchStepRetries(e, fetchOk) ==
    /\ Outcome(fetchOk)
    /\ eng[e].pc = "fetch"
    /\ ceCalls' = ceCalls + 1
    /\ eng' = [eng EXCEPT ![e].pc = IF fetchOk THEN "generate" ELSE "fetch",
                          ![e].data = IF fetchOk THEN CostData(ceCalls + 1)
                                      ELSE @,
                          ![e].fetches = @ + 1]
    /\ UNCHANGED store
    /\ lastGen' = NoGen
    /\ UNCHANGED <<now, ticks, cache, ledger, stream, shard, proc, calls,
                   serial, outbox>>

\* standard and comparison branch, cache miss: getCostAndUsage or
\* getCostAndUsageComparisons; a failure is rethrown (standard) or answered
\* with a 500 (comparison)
FetchStep(e, fetchOk) ==
    /\ Outcome(fetchOk)
    /\ eng[e].pc = "fetch"
    /\ ceCalls' = ceCalls + 1
    /\ IF fetchOk
       THEN eng' = [eng EXCEPT ![e].pc = "generate",
                               ![e].data = CostData(ceCalls + 1),
                               ![e].fetches = @ + 1]
       ELSE eng' = [eng EXCEPT ![e] =
                       Returned([eng[e] EXCEPT !.fetches = @ + 1,
                                               !.threw = "fetch"],
                                Response("Error", NoStr, FALSE))]
    /\ UNCHANGED store
    /\ lastGen' = NoGen
    /\ UNCHANGED <<now, ticks, cache, ledger, stream, shard, proc, calls,
                   serial, outbox>>

\* the name of the PDF object: reportId, or reportId-comparison
ReportName(parsedQuery, reportId) ==
    IF isMonthComparisonRequest(parsedQuery)
    THEN reportId \o "-comparison" ELSE reportId

\* askBedrock, generateCostReportPDF and the two S3 puts: any of them
\* throwing ends the call with an error
GenerateStep(e, genOk) ==
    /\ Outcome(genOk)
    /\ eng[e].pc = "generate"
    /\ IF genOk
       THEN /\ eng' = [eng EXCEPT
                          ![e].pc = "setCache",
                          ![e].summary = Narrative(Uuid(serial + 1)),
                          ![e].reportUrl = ArtifactUrl(ReportName(
                              eng[e].parsedQuery, Uuid(serial + 1)))]
            /\ serial' = serial + 1
       ELSE /\ Fail(e, "generate")
            /\ UNCHANGED serial
    /\ store' = IF genOk
                THEN PutObject(store, ArtifactUrl(ReportName(
                         eng[e].parsedQuery, Uuid(serial + 1))))
                ELSE store
    /\ lastGen' = NoGen
    /\ UNCHANGED <<now, ticks, cache, ledger, stream, shard, proc, calls,
                   outbox, ceCalls>>

\* what costReportHandler answers after `await ddbUtils.setCache(...)`:
\* setCache rethrows a failed PutItem and the handler does not catch it
AfterSetCache(writeOk, reportUrl) ==
    IF writeOk THEN Response("Generated", reportUrl, FALSE)
    ELSE Response("Error", NoStr, FALSE)

SetCacheStep(e, writeOk) ==
    /\ Outcome(writeOk)
    /\ eng[e].pc = "setCache"
    /\ cache' = IF writeOk
                THEN setCache(cache, eng[e].cacheKey, eng[e].data,
                              eng[e].reportUrl, eng[e].summary, now)
                ELSE cache
    /\ eng' = [eng EXCEPT ![e] =
                 Returned([eng[e] EXCEPT
                              !.threw = IF writeOk THEN NoStr ELSE "setCache"],
                          AfterSetCache(writeOk, eng[e].reportUrl))]
    /\ UNCHANGED store
    /\ lastGen' = IF writeOk
                  THEN [parsedQuery |-> eng[e].parsedQuery,
                        reportUrl |-> eng[e].reportUrl]
                  ELSE NoGen
    /\ UNCHANGED <<now, ticks, ledger, stream, shard, proc, calls, serial,
                   outbox, ceCalls>>

\* Time passes between invocations: a tick is hours, an invocation ends
\* within its Lambda timeout (60 s and 300 s).
Tick ==
    /\ UNCHANGED <<faults, keys>>
    /\ ticks < MaxTicks
    /\ proc.pc = "idle"
    /\ \A e \in DOMAIN eng : eng[e].pc \in {"idle", "done"}
    /\ now' = now + TickHours
    /\ ticks' = ticks + 1
    /\ UNCHANGED store
    /\ lastGen' = NoGen
    /\ UNCHANGED <<cache, ledger, stream, shard, proc, eng, calls, serial,
                   outbox, ceCalls>>

\* The cache table's timeToLiveAttribute: DynamoDB deletes an item some time
\* after its ttl has passed.
TtlExpiry(cacheKey) ==
    /\ cacheKey \in DOMAIN cache
    /\ cache[cacheKey].ttl <= now
    /\ cache' = [k \in DOMAIN cache \ {cacheKey} |-> cache[k]]
    /\ UNCHANGED store
    /\ lastGen' = NoGen
    /\ UNCHANGED <<now, ticks, ledger, stream, shard, proc, eng, calls,
                   serial, outbox, ceCalls, faults, keys>>

\* ------------------------------------------ Deferred Processor: handler
Min(a, b) == IF a < b THEN a ELSE b

\* The event source mapping hands the handler the next batch of the feed;
\* a batch whose invocation threw is handed over again, unchanged.
InvokeProcessor ==
    /\ UNCHANGED <<faults, keys>>
    /\ proc.pc = "idle"
    /\ shard.pos < Len(stream)
    /\ proc' = [IdleProc EXCEPT
                   !.pc = "record",
                   !.from = shard.pos + 1,
                   !.i = shard.pos + 1,
                   !.to = IF shard.attempts > 0 THEN shard.retryTo
                          ELSE Min(Len(stream), shard.pos + BatchSize)]
    /\ UNCHANGED store
    /\ lastGen' = NoGen
    /\ UNCHANGED <<now, ticks, cache, ledger, stream, shard, eng, calls,
                   serial, outbox, ceCalls>>

\* the guards without the test for an email
SkipsRecordIgnoringEmail(record) ==
    \/ record.eventName # "INSERT"
    \/ ~Truthy(record.NewImage.requestId)
    \/ (Truthy(record.NewImage.reportUrl)
        /\ record.NewImage.reportUrl # REPORT_STATUS_PENDING)

\* the `continue` guards at the top of the loop body, on the record's image
SkipsRecord(record) ==
    \/ record.eventName # "INSERT"
    \/ ~Truthy(record.NewImage.requestId)
    \/ ~Truthy(record.NewImage.email)
    \/ (Truthy(record.NewImage.reportUrl)
        /\ record.NewImage.reportUrl # REPORT_STATUS_PENDING)

\* a `continue` that leaves the loop: the handler returns after the record
NextRecordReturns(p) ==
    /\ proc' = IdleProc
    /\ shard' = [pos |-> p.to, attempts |-> 0, retryTo |-> 0]

\* the loop moves to the next record, or the handler returns 200 and the
\* event source mapping moves past the batch
NextRecord(p) ==
    IF p.i < p.to
    THEN /\ proc' = [IdleProc EXCEPT !.pc = "record", !.from = p.from,
                                     !.to = p.to, !.i = p.i + 1]
         /\ UNCHANGED shard
    ELSE /\ proc' = IdleProc
         /\ shard' = [pos |-> p.to, attempts |-> 0, retryTo |-> 0]

\* the handler throws: the batch is retried retryAttempts times, then dropped
Throw(p) ==
    /\ proc' = IdleProc
    /\ shard' = IF shard.attempts < RetryAttempts
                THEN [pos |-> shard.pos, attempts |-> shard.attempts + 1,
                      retryTo |-> p.to]
                ELSE [pos |-> p.to, attempts |-> 0, retryTo |-> 0]

\* one record: the guards, the date range and the cache key, up to the
\* call of getResourceLevelCosts
RecordStep ==
    /\ UNCHANGED <<faults, keys>>
    /\ proc.pc = "record"
    /\ LET record == stream[proc.i]
       IN  IF SkipsRecord(record)
           THEN NextRecord(proc)
           ELSE /\ proc' = [proc EXCEPT
                       !.pc = "fetch",
                       !.requestId = record.NewImage.requestId,
                       !.email = record.NewImage.email,
                       !.cacheKey = ProcessorCacheKey(
                                        record.NewImage.parsedJsonQuery, now)]
                /\ UNCHANGED shard
    /\ UNCHANGED store
    /\ lastGen' = NoGen
    /\ UNCHANGED <<now, ticks, cache, ledger, stream, eng, calls, serial,
                   outbox, ceCalls>>

\* the fetch with a catch that swallows the error and goes on
ProcFetchStepGoesOn(fetchOk) ==
    /\ Outcome(fetchOk)
    /\ proc.pc = "fetch"
    /\ ceCalls' = ceCalls + 1
    /\ proc' = [proc EXCEPT !.pc = "generate",
                            !.data = IF fetchOk THEN CostData(ceCalls + 1)
                                     ELSE NoStr]
    /\ UNCHANGED store
    /\ lastGen' = NoGen
    /\ UNCHANGED <<now, ticks, cache, ledger, stream, shard, eng, calls,
                   serial, outbox>>

\* getResourceLevelCosts in its try/catch
ProcFetchStep(fetchOk) ==
    /\ Outcome(fetchOk)
    /\ proc.pc = "fetch"
    /\ ceCalls' = ceCalls + 1
    /\ IF fetchOk
       THEN proc' = [proc EXCEPT !.pc = "generate",
                                 !.data = CostData(ceCalls + 1)]
       ELSE proc' = [proc EXCEPT !.pc = "updateError",
                                 !.errMessage = "Failed to generate report"]
    /\ UNCHANGED store
    /\ lastGen' = NoGen
    /\ UNCHANGED <<now, ticks, cache, ledger, stream, shard, eng, calls,
                   serial, outbox>>

\* catch of the fetch: updateReportStatus(ERROR), then `continue`
ProcUpdateErrorStep(writeOk) ==
    /\ Outcome(writeOk)
    /\ proc.pc = "updateError"
    /\ IF writeOk
       THEN LET after == updateReportStatus(ledger, proc.requestId,
                             REPORT_STATUS_ERROR, proc.errMessage)
            IN  /\ ledger' = after
                /\ stream' = StreamAfter(stream, ledger, after,
                                         proc.requestId)
                /\ NextRecord(proc)
       ELSE /\ Throw(proc)
            /\ UNCHANGED <<ledger, stream>>
    /\ UNCHANGED store
    /\ lastGen' = NoGen
    /\ UNCHANGED <<now, ticks, cache, eng, calls, serial, outbox, ceCalls>>

\* buildCostSummaryPrompt, askBedrock, generateCostReportPDF, the S3 put
ProcGenerateStep(genOk) ==
    /\ Outcome(genOk)
    /\ proc.pc = "generate"
    /\ IF genOk
       THEN /\ proc' = [proc EXCEPT
                           !.pc = "setCache",
                           !.costSummaryText = Narrative(proc.data),
                           !.finalReportUrl = ArtifactUrl(proc.requestId)]
            /\ UNCHANGED shard
       ELSE Throw(proc)
    /\ store' = IF genOk
                THEN PutObject(store, ArtifactUrl(proc.requestId))
                ELSE store
    /\ lastGen' = NoGen
    /\ UNCHANGED <<now, ticks, cache, ledger, stream, eng, calls, serial,
                   outbox, ceCalls>>

ProcSetCacheStep(writeOk) ==
    /\ Outcome(writeOk)
    /\ proc.pc = "setCache"
    /\ IF writeOk
       THEN /\ cache' = setCache(cache, proc.cacheKey, proc.data,
                                 proc.finalReportUrl, proc.costSummaryText,
                                 now)
            /\ proc' = [proc EXCEPT !.pc = "sendEmail"]
            /\ UNCHANGED shard
       ELSE /\ Throw(proc)
            /\ UNCHANGED cache
    /\ UNCHANGED store
    /\ lastGen' = NoGen
    /\ UNCHANGED <<now, ticks, ledger, stream, eng, calls, serial, outbox,
                   ceCalls>>

\* ses.send without its try/catch
ProcSendEmailStepThrows(sendOk) ==
    /\ Outcome(sendOk)
    /\ proc.pc = "sendEmail"
    /\ IF sendOk
       THEN /\ outbox' = Append(outbox, [to |-> proc.email,
                                         requestId |-> proc.requestId,
                                         reportUrl |-> proc.finalReportUrl])
            /\ proc' = [proc EXCEPT !.pc = "updateStatus"]
            /\ UNCHANGED shard
       ELSE /\ Throw(proc)
            /\ UNCHANGED outbox
    /\ UNCHANGED store
    /\ lastGen' = NoGen
    /\ UNCHANGED <<now, ticks, cache, ledger, stream, eng, calls, serial,
                   ceCalls>>

\* ses.send in its try/catch: a failure is logged and the handler goes on
ProcSendEmailStep(sendOk) ==
    /\ Outcome(sendOk)
    /\ proc.pc = "sendEmail"
    /\ outbox' = IF sendOk
                 THEN Append(outbox, [to |-> proc.email,
                                      requestId |-> proc.requestId,
                                      reportUrl |-> proc.finalReportUrl])
                 ELSE outbox
    /\ proc' = [proc EXCEPT !.pc = "updateStatus"]
    /\ UNCHANGED store
    /\ lastGen' = NoGen
    /\ UNCHANGED <<now, ticks, cache, ledger, stream, shard, eng, calls,
                   serial, ceCalls>>

\* the closing updateReportStatus(finalReportUrl, costSummaryText)
ProcUpdateStatusStep(writeOk) ==
    /\ Outcome(writeOk)
    /\ proc.pc = "updateStatus"
    /\ IF writeOk
       THEN LET after == updateReportStatus(ledger, proc.requestId,
                             proc.finalReportUrl, proc.costSummaryText)
            IN  /\ ledger' = after
                /\ stream' = StreamAfter(stream, ledger, after,
                                         proc.requestId)
                /\ NextRecord(proc)
       ELSE /\ Throw(proc)
            /\ UNCHANGED <<ledger, stream>>
    /\ UNCHANGED store
    /\ lastGen' = NoGen
    /\ UNCHANGED <<now, ticks, cache, eng, calls, serial, outbox, ceCalls>>

\* ----------------------------------------------------------------- Next
Next ==
    \/ Tick
    \/ \E cacheKey \in DOMAIN cache : TtlExpiry(cacheKey)
    \/ \E e \in Engines, parsedQuery \in Queries, userEmail \in Emails,
          requestId \in CallerRequestIds, readOk \in BOOLEAN :
          CallCostReportHandler(e, parsedQuery, userEmail, requestId, readOk)
    \/ \E e \in Engines, ok \in BOOLEAN : SaveReportStep(e, ok)
    \/ \E e \in Engines, ok \in BOOLEAN : FetchStep(e, ok)
    \/ \E e \in Engines, ok \in BOOLEAN : GenerateStep(e, ok)
    \/ \E e \in Engines, ok \in BOOLEAN : SetCacheStep(e, ok)
    \/ InvokeProcessor
    \/ RecordStep
    \/ \E ok \in BOOLEAN : ProcFetchStep(ok)
    \/ \E ok \in BOOLEAN : ProcUpdateErrorStep(ok)
    \/ \E ok \in BOOLEAN : ProcGenerateStep(ok)
    \/ \E ok \in BOOLEAN : ProcSetCacheStep(ok)
    \/ \E ok \in BOOLEAN : ProcSendEmailStep(ok)
    \/ \E ok \in BOOLEAN : ProcUpdateStatusStep(ok)

Spec == Init /\ [][Next]_vars

\* ------------------------------------------- the deferred path on its own
\* Resource-level requests and the Processor, with the scheduling the
\* platform gives them: an invocation that has started runs on until it
\* returns or throws (within its Lambda timeout), and the event source
\* mapping keeps invoking the Processor while the feed holds records it has
\* not moved past. Nothing obliges a caller to make another request.
DeferredQueries == {Query("resource level breakdown", NoDate, NoDate, 3, NoStr)}

\* after its cache lookup a resource-level call has one step left
EngineProgress == \E e \in Engines, ok \in BOOLEAN : SaveReportStep(e, ok)

ProcessorProgress ==
    \/ InvokeProcessor
    \/ RecordStep
    \/ \E ok \in BOOLEAN :
          \/ ProcFetchStep(ok)
          \/ ProcUpdateErrorStep(ok)
          \/ ProcGenerateStep(ok)
          \/ ProcSetCacheStep(ok)
          \/ ProcSendEmailStep(ok)
          \/ ProcUpdateStatusStep(ok)

NextDeferred ==
    \/ \E e \in Engines, parsedQuery \in DeferredQueries, userEmail \in Emails,
          requestId \in CallerRequestIds, readOk \in BOOLEAN :
          CallCostReportHandler(e, parsedQuery, userEmail, requestId, readOk)
    \/ EngineProgress
    \/ ProcessorProgress

SpecLive ==
    /\ Init
    /\ [][NextDeferred]_vars
    /\ WF_vars(EngineProgress)
    /\ WF_vars(ProcessorProgress)

\* ------------------------------------ the synchronous paths on their own
\* Concurrent invocations of costReportHandler for billing and comparison
\* reports: the Lambda service runs one invocation per request in flight.
ComparisonQuery(period1, period2) ==
    [Query("compare months", NoDate, NoDate, 0, NoStr)
        EXCEPT !.period1 = period1, !.period2 = period2]

June == [start |-> [y |-> 2024, m |-> 6, d |-> 1],
         end |-> [y |-> 2024, m |-> 6, d |-> 30]]

SyncQueries ==
    { Query("monthly billing", NoDate, NoDate, 0, NoStr),
      ComparisonQuery(June, June),
      ComparisonQuery(June, NoPeriod),
      ComparisonQuery([June EXCEPT !.end = NoDate], June) }

SyncInit ==
    /\ now = StartNow
    /\ ticks = 0
    /\ cache = <<>>
    /\ ledger = {}
    /\ stream = <<>>
    /\ shard = [pos |-> 0, attempts |-> 0, retryTo |-> 0]
    /\ proc = IdleProc
    /\ eng = [e \in 1 .. MaxConcurrent |-> IdleEngine]
    /\ calls = 0
    /\ serial = 0
    /\ outbox = <<>>
    /\ ceCalls = 0
    /\ lastGen = NoGen
    /\ faults = 0
    /\ store = {}
    /\ kin = [parsedQuery |-> NoGen.parsedQuery, t |-> StartNow]
    /\ kout = NoKeys

NextSync ==
    \/ Tick
    \/ \E cacheKey \in DOMAIN cache : TtlExpiry(cacheKey)
    \/ \E e \in DOMAIN eng, parsedQuery \in SyncQueries, readOk \in BOOLEAN :
          CallCostReportHandler(e, parsedQuery, NoStr, NoStr, readOk)
    \/ \E e \in DOMAIN eng, ok \in BOOLEAN : FetchStep(e, ok)
    \/ \E e \in DOMAIN eng, ok \in BOOLEAN : GenerateStep(e, ok)
    \/ \E e \in DOMAIN eng, ok \in BOOLEAN : SetCacheStep(e, ok)

SpecSync == SyncInit /\ [][NextSync]_vars

\* ------------------------------------------- key derivation on its own
\* The Engine's resource branch and the Processor derive their cache keys
\* from the same parsed query at the same time.
Date(y, m, d) == [y |-> y, m |-> m, d |-> d]

KeyQueries ==
    { Query(intent, startDate, endDate, days, specialRequirements) :
        intent \in {"resource level breakdown", "monthly resource breakdown"},
        startDate \in {NoDate, Date(2024, 6, 1)},
        endDate \in {NoDate, Date(2024, 6, 8)},
        days \in {0, 3},
        specialRequirements \in {NoStr, "", "by team"} }

KeyTimes == {StartNow, StartNow + TickHours}

KeysInit ==
    /\ SystemInit
    /\ kin \in [parsedQuery : KeyQueries, t : KeyTimes]
    /\ kout = NoKeys

DeriveKeys ==
    /\ ~kout.done
    /\ kout' = [done |-> TRUE,
                engine |-> resourceCacheKey(kin.parsedQuery, kin.t),
                processor |-> ProcessorCacheKey(kin.parsedQuery, kin.t)]
    /\ UNCHANGED <<system, kin>>

SpecKeys == KeysInit /\ [][DeriveKeys]_vars

\* --------------------------------------- comparison periods on their own
\* prepareComparisonPeriods applied to a pair of periods, in both orders.
Periods ==
    { [start |-> start, end |-> end] :
        start \in {Date(2024, 5, 1), Date(2024, 5, 20), Date(2024, 6, 1),
                   Date(2024, 6, 30), Date(2024, 12, 15), Date(2025, 1, 1)},
        end \in {Date(2024, 6, 30), Date(2025, 1, 31)} }

PeriodsInit ==
    /\ SystemInit
    /\ kin \in [period1 : Periods, period2 : Periods]
    /\ kout = [done |-> FALSE]

ComparePeriods ==
    /\ ~kout.done
    /\ kout' = [done |-> TRUE,
                forward |-> prepareComparisonPeriods(kin.period1, kin.period2),
                swapped |-> prepareComparisonPeriods(kin.period2, kin.period1),
                full |-> toFullMonthPeriod(kin.period1),
                twice |-> toFullMonthPeriod(toFullMonthPeriod(kin.period1))]
    /\ UNCHANGED <<system, kin>>

SpecPeriods == PeriodsInit /\ [][ComparePeriods]_vars

\* ------------------------------------------- the key function on its own
\* generateCacheKey applied to two parameter objects that hold the fields of
\* one resource-level key in some order of construction.
KeyFields ==
    LET parsedQuery == Query("resource level breakdown", NoDate, NoDate, 3,
                             NoStr)
    IN  EngineKeyParams(parsedQuery, getDateRange(parsedQuery, StartNow),
                        "RESOURCE_ID", "DAILY")

Constructions ==
    { [i \in DOMAIN KeyFields |-> KeyFields[order[i]]] :
        order \in { f \in [DOMAIN KeyFields -> DOMAIN KeyFields] :
                      \A i, j \in DOMAIN KeyFields : f[i] = f[j] => i = j } }

ParamsInit ==
    /\ SystemInit
    /\ kin \in [params1 : Constructions, params2 : Constructions]
    /\ kout = [done |-> FALSE]

GenerateKeys ==
    /\ ~kout.done
    /\ kout' = [done |-> TRUE,
                key1 |-> generateCacheKey(kin.params1),
                key2 |-> generateCacheKey(kin.params2)]
    /\ UNCHANGED <<system, kin>>

SpecParams == ParamsInit /\ [][GenerateKeys]_vars

\* ------------------------------------------ request handling on its own
\* mainHandler's dispatch and getDateRange applied to a parsed query of
\* the translator.
TranslatorIntents ==
    {"monthly billing", "daily billing", "resource level breakdown",
     "scheduled cost report", "compare months", "anomaly report"}

RequestQueries ==
    { [Query(intent, window[1], window[2], days, NoStr)
          EXCEPT !.cronExpression = IF intent = "scheduled cost report"
                                    THEN "cron(0 8 * * ? *)" ELSE NoStr,
                 !.period1 = IF intent = "compare months"
                             THEN June ELSE NoPeriod,
                 !.period2 = IF intent = "compare months"
                             THEN June ELSE NoPeriod] :
        intent \in TranslatorIntents,
        window \in { <<NoDate, NoDate>>,
                     <<Date(2024, 6, 1), NoDate>>,
                     <<NoDate, Date(2024, 6, 8)>>,
                     <<Date(2024, 6, 1), Date(2024, 6, 8)>>,
                     <<Date(2024, 6, 8), Date(2024, 6, 1)>> },
        days \in {0, 7, 20} }

RequestsInit ==
    /\ SystemInit
    /\ kin \in [parsedQuery : RequestQueries, t : KeyTimes]
    /\ kout = [done |-> FALSE]

ResolveRequest ==
    /\ ~kout.done
    /\ kout' = [done |-> TRUE,
                type |-> identifyIntent(kin.parsedQuery),
                route |-> mainHandler(kin.parsedQuery),
                range |-> getDateRange(kin.parsedQuery, kin.t)]
    /\ UNCHANGED <<system, kin>>

SpecRequests == RequestsInit /\ [][ResolveRequest]_vars

\* --------------------------------------------------- scheduled reports
\* A request to schedule a report creates an EventBridge rule whose target
\* input is built by createRecurringCostReportRule; when the rule fires, the
\* scheduled Lambda's handler gets that input as its event.
ScheduledDefaultDays == 7

\* createRecurringCostReportRule({query, cronExpression}): the rule and the
\* Input of its target
createRecurringCostReportRule(query, cronExpression) ==
    [ScheduleExpression |-> cronExpression,
     Input |-> [isScheduled |-> TRUE, parsedQuery |-> query]]

\* event.name of an event object: undefined when the object has no such
\* property
EventField(event, name, undefined) ==
    IF name \in DOMAIN event THEN event[name] ELSE undefined

\* scheduledCostReportHandler(event) at time t: the start and end it puts
\* in its cache key and passes to getCostAndUsage
scheduledWindow(event, t) ==
    LET startDate == EventField(event, "startDate", NoDate)
        endDate == EventField(event, "endDate", NoDate)
        eventDays == EventField(event, "days", 0)
        days == IF eventDays # 0 THEN eventDays ELSE ScheduledDefaultDays
    IN  IF HasDate(startDate) /\ HasDate(endDate)
        THEN [start |-> IsoDate(NewDateFromString(startDate)),
              end |-> IsoDate(NewDateFromString(endDate))]
        ELSE [start |-> IsoDate(SetDateBack(t, days)), end |-> IsoDate(t)]

NoRule == [ScheduleExpression |-> NoStr,
           Input |-> [isScheduled |-> FALSE, parsedQuery |-> NoGen.parsedQuery]]

NoWindowYet == [start |-> NoStr, end |-> NoStr]

ScheduleQueries ==
    { [Query("scheduled cost report", startDate, endDate, days, NoStr)
          EXCEPT !.cronExpression = cronExpression] :
        startDate \in {NoDate, Date(2024, 6, 1)},
        endDate \in {NoDate, Date(2024, 6, 8)},
        days \in {0, 3, 7, 14},
        cronExpression \in {NoStr, "cron(0 8 * * ? *)"} }

\* the times the rule fires at
FireTimes == {StartNow + 24, StartNow + 48}

ScheduleInit ==
    /\ SystemInit
    /\ kin \in [parsedQuery : ScheduleQueries, t : FireTimes]
    /\ kout = [pc |-> "request", rule |-> NoRule, window |-> NoWindowYet]

\* mainHandler -> handleScheduledCostReport(parsedQuery)
ScheduleReport ==
    /\ kout.pc = "request"
    /\ mainHandler(kin.parsedQuery) = "handleScheduledCostReport"
    /\ kout' = IF ~Truthy(kin.parsedQuery.cronExpression)
               THEN [kout EXCEPT !.pc = "failed"]
               ELSE [kout EXCEPT
                       !.pc = "scheduled",
                       !.rule = createRecurringCostReportRule(
                                    kin.parsedQuery,
                                    kin.parsedQuery.cronExpression)]
    /\ UNCHANGED <<system, kin>>

\* the rule fires: scheduledCostReportHandler(event) with the target's Input
RuleFires ==
    /\ kout.pc = "scheduled"
    /\ kout' = [kout EXCEPT !.pc = "ran",
                            !.window = scheduledWindow(kout.rule.Input, kin.t)]
    /\ UNCHANGED <<system, kin>>

NextSchedule == ScheduleReport \/ RuleFires

SpecSchedule == ScheduleInit /\ [][NextSchedule]_vars

\* ---------------------------------------------------------- properties
IsTerminal(reportUrl) == reportUrl # REPORT_STATUS_PENDING
IsDelivered(reportUrl) ==
    reportUrl \notin {REPORT_STATUS_PENDING, REPORT_STATUS_ERROR}

RowsOf(items, requestId) == {it \in items : it.requestId = requestId}

RequestIds == {it.requestId : it \in ledger}

Inserts(records, requestId) ==
    {i \in DOMAIN records : /\ records[i].eventName = "INSERT"
                            /\ records[i].NewImage.requestId = requestId}

\* the Processor is past the guards, at work on a record
Working == proc.pc \in {"fetch", "updateError", "generate", "setCache",
                        "sendEmail", "updateStatus"}

Quiescent ==
    /\ proc.pc = "idle"
    /\ shard.pos = Len(stream)
    /\ \A e \in Engines : eng[e].pc \in {"idle", "done"}

IsStandard(parsedQuery) ==
    /\ parsedQuery.intent # ""
    /\ ~Includes(parsedQuery.intent, "resource")
    /\ ~Includes(parsedQuery.intent, "compare")

\* C1: once a ledger row's reportUrl is terminal (an artifact URL or
\* "ERROR"), no later step - Processor or Engine - changes it.
C1_TerminalNeverChanges ==
    [][\A it \in ledger :
          IsTerminal(it.reportUrl) =>
              \E after \in ledger' : /\ after.requestId = it.requestId
                                     /\ after.reportUrl = it.reportUrl]_vars

\* C2: the Processor does no work on a record whose row it has already
\* moved to DELIVERED: a redelivered INSERT is skipped by the guards.
C2_RedeliveryIsNoOp ==
    Working => ~IsDelivered(Row(ledger, proc.requestId).reportUrl)

\* C3: for every resource-level parsed query, the Processor's cache key
\* equals the Engine's cache key derived at the same time.
C3_KeysAgree == kout.done => kout.engine = kout.processor

\* C4: a second costReportHandler call with the requestId of a row that is
\* still PENDING leaves exactly one row for that requestId, still PENDING,
\* and adds no INSERT record to the change feed (no second Processor run);
\* no requestId ever has two rows.
C4_ResubmissionKeepsOneRow ==
    /\ [](\A requestId \in RequestIds :
              Cardinality(RowsOf(ledger, requestId)) = 1)
    /\ [][\A e \in Engines :
            LET requestId == eng[e].requestId
            IN  ( /\ eng[e].pc = "saveReport"
                  /\ eng'[e].pc = "done"
                  /\ eng'[e].threw = NoStr
                  /\ HasRow(ledger, requestId)
                  /\ Row(ledger, requestId).reportUrl = REPORT_STATUS_PENDING )
                => /\ Cardinality(RowsOf(ledger', requestId)) = 1
                   /\ Row(ledger', requestId).reportUrl = REPORT_STATUS_PENDING
                   /\ Inserts(stream', requestId) = Inserts(stream, requestId)
                   /\ Cardinality(Inserts(stream', requestId)) = 1
                   /\ eng'[e].response.kind = "Accepted"]_vars

\* a row submitted twice while PENDING: its INSERT record is followed by the
\* MODIFY record of the second PutItem, and nothing terminal was written
C4_Witness ==
    \E i, j \in DOMAIN stream :
        /\ i < j
        /\ stream[i].eventName = "INSERT"
        /\ stream[j].eventName = "MODIFY"
        /\ stream[j].NewImage.requestId = stream[i].NewImage.requestId
        /\ stream[j].NewImage.reportUrl = REPORT_STATUS_PENDING
        /\ \A k \in DOMAIN stream :
              stream[k].NewImage.requestId = stream[i].NewImage.requestId
              => stream[k].NewImage.reportUrl = REPORT_STATUS_PENDING
        /\ Row(ledger, stream[i].NewImage.requestId).reportUrl
               = REPORT_STATUS_PENDING
        /\ \E e \in Engines : /\ eng[e].pc = "done"
                              /\ eng[e].response.kind = "Accepted"
                              /\ eng[e].requestId = stream[i].NewImage.requestId

\* the INSERT records of rows created without an email that the Processor
\* has been handed and has finished with
HandledWithoutEmail ==
    {i \in 1 .. shard.pos : /\ stream[i].eventName = "INSERT"
                            /\ ~Truthy(stream[i].NewImage.email)}

\* C5 as stated: after the Processor has handled the insert event of a row
\* submitted without an email, the row is DELIVERED.
C5_NoEmailRowDelivered ==
    \A i \in HandledWithoutEmail :
        IsDelivered(Row(ledger, stream[i].NewImage.requestId).reportUrl)

\* C5 amended: a resource-level request without an email that misses the
\* cache is answered Accepted with needEmail and leaves its row PENDING;
\* the Processor skips the row's insert event (it carries no email), so a
\* row whose insert event had no email is PENDING in every state.
C5_NoEmailRowStaysPending ==
    /\ [](\A i \in DOMAIN stream :
            (stream[i].eventName = "INSERT"
             /\ ~Truthy(stream[i].NewImage.email))
            => /\ Row(ledger, stream[i].NewImage.requestId).reportUrl
                      = REPORT_STATUS_PENDING
               /\ (Working => proc.requestId # stream[i].NewImage.requestId))
    /\ [][\A e \in Engines :
            ( /\ eng[e].pc = "saveReport"
              /\ eng'[e].pc = "done"
              /\ eng'[e].threw = NoStr
              /\ ~Truthy(eng[e].userEmail) )
            => /\ eng'[e].response = Response("Accepted", NoStr, TRUE)
               /\ Row(ledger', eng[e].requestId).reportUrl
                      = REPORT_STATUS_PENDING
               /\ Row(ledger', eng[e].requestId).email = NoStr]_vars

C5_Witness ==
    \E i \in HandledWithoutEmail :
        /\ Row(ledger, stream[i].NewImage.requestId).reportUrl
               = REPORT_STATUS_PENDING
        /\ Quiescent

\* C6: a row first submitted without an email and then resubmitted with
\* one does not stay PENDING: once the Processor has consumed the whole
\* change feed, the row is DELIVERED or ERROR.
C6_ResubmittedRowIsProcessed ==
    Quiescent =>
        \A i \in DOMAIN stream :
            LET requestId == stream[i].NewImage.requestId
            IN  ( /\ stream[i].eventName = "INSERT"
                  /\ ~Truthy(stream[i].NewImage.email)
                  /\ Truthy(Row(ledger, requestId).email) )
                => IsTerminal(Row(ledger, requestId).reportUrl)

\* C7: no notification is sent for a row whose reportUrl is still PENDING.
C7_UpdateBeforeNotify ==
    [][Len(outbox') > Len(outbox) =>
          Row(ledger, outbox'[Len(outbox')].requestId).reportUrl
              # REPORT_STATUS_PENDING]_vars

\* C8: a standard call that misses the cache makes exactly one billing
\* fetch before it answers Generated; and a call for the same parsed query
\* made right after a Generated answer (nothing in between, cache read
\* succeeding) is answered from the cache with the same URL and makes no
\* billing fetch.
C8_MissThenHit ==
    \A e \in Engines :
        /\ ( /\ eng[e].pc = "done"
             /\ eng[e].response.kind = "Generated"
             /\ ~eng[e].cached )
           => eng[e].fetches = 1
        /\ ( /\ eng[e].follows # NoStr
             /\ ~eng[e].readThrew )
           => /\ eng[e].pc = "done"
              /\ eng[e].response = Response("Ready", eng[e].follows, FALSE)
              /\ eng[e].fetches = 0

C8_Witness ==
    \E e \in Engines :
        /\ eng[e].pc = "done"
        /\ eng[e].follows # NoStr
        /\ eng[e].response = Response("Ready", eng[e].follows, FALSE)
        /\ ceCalls = 1

\* C9: a standard call whose cache read throws treats it as a miss: it
\* fetches from the Billing Data Source and, nothing else failing, answers
\* Generated.
C9_FailOpenOnCacheRead ==
    \A e \in Engines :
        (eng[e].readThrew /\ IsStandard(eng[e].parsedQuery))
        => /\ ~eng[e].cached
           /\ (eng[e].pc = "fetch" => eng[e].fetches = 0)
           /\ (eng[e].pc \in {"generate", "setCache"} => eng[e].fetches = 1)
           /\ (eng[e].pc = "done" => eng[e].fetches = 1)
           /\ (eng[e].pc = "done" /\ eng[e].threw = NoStr)
                  => /\ eng[e].response.kind = "Generated"
                     /\ Truthy(eng[e].response.reportUrl)

\* the read threw although a fresh entry with an artifact was there
C9_Witness ==
    \E e \in Engines :
        /\ eng[e].pc = "done"
        /\ eng[e].readThrew
        /\ eng[e].follows # NoStr
        /\ eng[e].response.kind = "Generated"
        /\ eng[e].fetches = 1

\* C10: a cache write that fails after the artifact was generated does not
\* change the answer: the call still returns Generated with the new URL.
C10_CacheWriteNotRequired ==
    \A e \in Engines :
        (eng[e].pc = "done" /\ eng[e].threw = "setCache")
        => /\ eng[e].response.kind = "Generated"
           /\ Truthy(eng[e].response.reportUrl)

\* C11: for every pair of periods, the baseline prepareComparisonPeriods
\* returns starts no later than the comparison, and the result is the same
\* whichever of the two periods is passed first - also when both periods
\* fall in the same month.
C11_ComparisonOrdering ==
    kout.done =>
        /\ NewDateFromString(kout.forward.baseline.start)
               <= NewDateFromString(kout.forward.comparison.start)
        /\ kout.forward = kout.swapped

\* two different periods of one month, and two periods given later one first
C11_Witness ==
    /\ kout.done
    /\ kin.period1 # kin.period2
    /\ \/ kout.forward.baseline = kout.forward.comparison
       \/ /\ NewDateFromString(kin.period1.start)
                 > NewDateFromString(kin.period2.start)
          /\ kout.forward.baseline = toFullMonthPeriod(kin.period2)
          /\ kout.forward.baseline # kout.forward.comparison

FieldsOf(params) == {params[i] : i \in DOMAIN params}

WithoutSpecialRequirements(parsedQuery) ==
    [parsedQuery EXCEPT !.specialRequirements = NoStr]

\* C13: a parsed query whose specialRequirements is the empty string gets a
\* different cache key than the same query with specialRequirements left
\* out (on the resource branch and on the standard branch).
C13_AbsentDiffersFromEmpty ==
    (kout.done /\ kin.parsedQuery.specialRequirements = "")
        => /\ kout.engine
                  # resourceCacheKey(
                        WithoutSpecialRequirements(kin.parsedQuery), kin.t)
           /\ standardCacheKey(kin.parsedQuery, kin.t)
                  # standardCacheKey(
                        WithoutSpecialRequirements(kin.parsedQuery), kin.t)

\* a step of the Processor's handler (the Engine's steps leave proc alone)
ProcessorStep == proc' # proc

\* the external call of this step failed
CallFailed == faults' # faults

\* C14: when the billing fetch fails in the Processor, the handler writes
\* nothing and notifies nobody in that step; its next step sets the row to
\* "ERROR" with the diagnostic message (the ledger write succeeding), sends
\* no notification, writes no cache entry, makes no further fetch, and
\* moves on to the next record of the batch.
C14_FetchFailureBecomesError ==
    [][ /\ (proc.pc = "fetch" /\ ProcessorStep /\ CallFailed)
           => /\ proc'.pc = "updateError"
              /\ proc'.requestId = proc.requestId
              /\ Truthy(proc'.errMessage)
              /\ outbox' = outbox /\ cache' = cache /\ ledger' = ledger
        /\ (proc.pc = "updateError" /\ ProcessorStep)
           => /\ ceCalls' = ceCalls
              /\ outbox' = outbox
              /\ cache' = cache
              /\ proc'.pc \in {"record", "idle"}
              /\ (proc'.pc = "record" => proc'.i = proc.i + 1)
              /\ ~CallFailed
                 => LET row == Row(ledger', proc.requestId)
                    IN  /\ row.reportUrl = REPORT_STATUS_ERROR
                        /\ row.costSummaryText = proc.errMessage ]_vars

\* one request, one failed fetch: the row is ERROR, nothing was sent or
\* cached
C14_Witness ==
    /\ proc.pc = "idle"
    /\ ceCalls = 1
    /\ outbox = <<>>
    /\ cache = <<>>
    /\ \E it \in ledger : /\ it.reportUrl = REPORT_STATUS_ERROR
                          /\ it.costSummaryText = "Failed to generate report"

\* C15: when the Processor leaves a row it had started work on - whatever
\* call failed - the row is DELIVERED or ERROR and the handler has not
\* thrown (the batch is not handed over again).
C15_FailuresBecomeLedgerState ==
    [][ (Working /\ ProcessorStep /\ proc'.pc \in {"idle", "record"})
        => /\ IsTerminal(Row(ledger', proc.requestId).reportUrl)
           /\ shard'.attempts <= shard.attempts ]_vars

\* C16: a notification send that fails is not propagated (the handler goes
\* on to its ledger update, the batch is not retried) and touches neither
\* cache nor ledger; the ledger update that follows sets the row to the
\* artifact URL and the narrative, and the cache entry written for the key
\* still holds that URL.
C16_NotifyFailureKeepsDelivery ==
    /\ [][ /\ (proc.pc = "sendEmail" /\ ProcessorStep /\ CallFailed)
              => /\ proc'.pc = "updateStatus"
                 /\ proc'.requestId = proc.requestId
                 /\ shard' = shard
                 /\ <<cache', ledger', outbox'>> = <<cache, ledger, outbox>>
           /\ (proc.pc = "updateStatus" /\ ProcessorStep)
              => /\ cache' = cache
                 /\ ~CallFailed
                    => LET row == Row(ledger', proc.requestId)
                       IN  /\ IsDelivered(row.reportUrl)
                           /\ row.reportUrl = proc.finalReportUrl
                           /\ row.costSummaryText = proc.costSummaryText ]_vars
    /\ [](proc.pc = "updateStatus"
             => /\ proc.cacheKey \in DOMAIN cache
                /\ cache[proc.cacheKey].reportUrl = proc.finalReportUrl)

\* a row DELIVERED although no notification ever went out, its artifact in
\* the cache, no batch waiting to be retried
C16_Witness ==
    /\ Quiescent
    /\ shard.attempts = 0
    /\ outbox = <<>>
    /\ \E it \in ledger :
          /\ IsDelivered(it.reportUrl)
          /\ \E k \in DOMAIN cache : cache[k].reportUrl = it.reportUrl

\* a fresh cache entry with an artifact
FreshArtifact(table, cacheKey, t) ==
    /\ cacheKey \in DOMAIN table
    /\ t - table[cacheKey].timestamp < MaxAgeHours
    /\ Truthy(table[cacheKey].reportUrl)

\* C17: when the cache holds a fresh entry with an artifact for the key of
\* the row the Processor is handling, the Processor makes no billing fetch.
C17_ProcessorUsesCachedArtifact ==
    [][ (proc.pc = "fetch" /\ ProcessorStep
         /\ FreshArtifact(cache, proc.cacheKey, now))
        => ceCalls' = ceCalls ]_vars

IsResource(parsedQuery) == Includes(parsedQuery.intent, "resource")

\* C18: a resource-level call never fetches billing data and never
\* generates an artifact. With the cache read and the ledger write
\* succeeding: it answers Ready with the cached URL exactly when the cache
\* holds a fresh entry with an artifact for its key, and otherwise leaves
\* exactly one row for its requestId, with reportUrl = "PENDING", and
\* answers Accepted with needEmail = (no email given).
C18_ResourceAlwaysDeferred ==
    /\ [](\A e \in Engines :
            (eng[e].pc # "idle" /\ IsResource(eng[e].parsedQuery))
            => /\ eng[e].fetches = 0
               /\ eng[e].pc \in {"saveReport", "done"}
               /\ eng[e].response.kind \in {NoStr, "Ready", "Accepted",
                                            "Error"})
    /\ [][\A e \in Engines :
            /\ ( /\ eng[e].pc \in {"idle", "done"}
                 /\ eng'[e] # eng[e]
                 /\ IsResource(eng'[e].parsedQuery)
                 /\ ~eng'[e].readThrew )
               => LET cacheKey == resourceCacheKey(eng'[e].parsedQuery, now)
                  IN  /\ ceCalls' = ceCalls /\ cache' = cache
                      /\ ledger' = ledger
                      /\ IF FreshArtifact(cache, cacheKey, now)
                         THEN /\ eng'[e].pc = "done"
                              /\ eng'[e].response
                                    = Response("Ready",
                                          cache[cacheKey].reportUrl, FALSE)
                         ELSE eng'[e].pc = "saveReport"
            /\ ( /\ eng[e].pc = "saveReport"
                 /\ eng'[e] # eng[e]
                 /\ ~CallFailed )
               => /\ ceCalls' = ceCalls /\ cache' = cache
                  /\ eng'[e].pc = "done"
                  /\ eng'[e].response
                        = Response("Accepted", NoStr,
                                   ~Truthy(eng[e].userEmail))
                  /\ Cardinality(RowsOf(ledger', eng[e].requestId)) = 1
                  /\ Row(ledger', eng[e].requestId).reportUrl
                        = REPORT_STATUS_PENDING ]_vars

\* a resource-level call answered from the cache, after one fetch by the
\* Processor
C18_Witness ==
    \E e \in Engines :
        /\ eng[e].pc = "done"
        /\ IsResource(eng[e].parsedQuery)
        /\ eng[e].response.kind = "Ready"
        /\ Truthy(eng[e].response.reportUrl)
        /\ ceCalls = 1

\* the records the Processor is not to work on
NotForProcessing(record) ==
    \/ record.eventName # "INSERT"
    \/ record.NewImage.requestId = NoStr
    \/ record.NewImage.email = NoStr
    \/ record.NewImage.reportUrl # REPORT_STATUS_PENDING

\* C19: for a record that is not an INSERT, or has no requestId or no
\* email, or whose image's reportUrl is not "PENDING", the Processor makes
\* no billing fetch, writes neither cache nor ledger, sends nothing, and
\* goes on to the next record or returns.
C19_SkippedRecordsDoNothing ==
    /\ [][ (proc.pc = "record" /\ ProcessorStep
            /\ NotForProcessing(stream[proc.i]))
           => /\ <<ceCalls', cache', ledger', stream', outbox'>>
                    = <<ceCalls, cache, ledger, stream, outbox>>
              /\ proc'.pc \in {"record", "idle"}
              /\ (proc'.pc = "record" => proc'.i = proc.i + 1)
              /\ (proc'.pc = "idle" => shard'.pos = proc.i) ]_vars
    /\ [](Working => ~NotForProcessing(stream[proc.i]))

\* the MODIFY record of the Processor's own "ERROR" write has been handed
\* to the Processor: still one fetch, nothing sent
C19_Witness ==
    /\ Quiescent
    /\ ceCalls = 1
    /\ outbox = <<>>
    /\ \E i \in 1 .. shard.pos :
          /\ stream[i].eventName = "MODIFY"
          /\ stream[i].NewImage.reportUrl = REPORT_STATUS_ERROR

\* C20: a resource-level call that carries an email and the requestId of
\* an existing row changes only the row's email: requestId, userCommand,
\* parsedJsonQuery, reportUrl, summary and createdAt stay as they were.
C20_ResubmissionOnlySetsEmail ==
    [][\A e \in Engines :
          LET requestId == eng[e].requestId
          IN  ( /\ eng[e].pc = "saveReport"
                /\ eng'[e] # eng[e]
                /\ ~CallFailed
                /\ Truthy(eng[e].userEmail)
                /\ HasRow(ledger, requestId)
                /\ Row(ledger, requestId).parsedJsonQuery = eng[e].parsedQuery )
              => LET old == Row(ledger, requestId)
                     new == Row(ledger', requestId)
                 IN  /\ new.email = eng[e].userEmail
                     /\ new.requestId = old.requestId
                     /\ new.userCommand = old.userCommand
                     /\ new.parsedJsonQuery = old.parsedJsonQuery
                     /\ new.reportUrl = old.reportUrl
                     /\ new.summary = old.summary
                     /\ new.createdAt = old.createdAt ]_vars

\* the key costReportHandler computes for a parsed query at time t
EngineKey(parsedQuery, t) ==
    IF isMonthComparisonRequest(parsedQuery)
    THEN comparisonCacheKey(parsedQuery,
             prepareComparisonPeriods(parsedQuery.period1,
                                      parsedQuery.period2))
    ELSE IF IsResource(parsedQuery) THEN resourceCacheKey(parsedQuery, t)
    ELSE standardCacheKey(parsedQuery, t)

\* a call of costReportHandler by slot e that reads the cache
LooksUp(e) ==
    /\ eng[e].pc \in {"idle", "done"}
    /\ eng'[e] # eng[e]
    /\ eng'[e].lookups = 1

\* C21: when costReportHandler answers Ready, the cache holds an entry
\* under exactly the key computed for the request, the entry has a report
\* URL (the one returned) and was written less than 12 hours ago; an entry
\* that is 12 hours old or older is treated as a miss although it is still
\* in the table.
C21_NoStaleArtifactServed ==
    [][\A e \in DOMAIN eng :
          LooksUp(e) =>
              LET cacheKey == EngineKey(eng'[e].parsedQuery, now)
              IN  /\ eng'[e].response.kind = "Ready"
                     => /\ cacheKey \in DOMAIN cache
                        /\ Truthy(cache[cacheKey].reportUrl)
                        /\ eng'[e].response.reportUrl
                              = cache[cacheKey].reportUrl
                        /\ now - cache[cacheKey].timestamp < MaxAgeHours
                  /\ ( /\ cacheKey \in DOMAIN cache
                       /\ now - cache[cacheKey].timestamp >= MaxAgeHours )
                     => /\ eng'[e].response.kind # "Ready"
                        /\ ~eng'[e].cached
                        /\ eng'[e].pc \in {"fetch", "saveReport"} ]_vars

\* a call that found an entry too old under its key and went on to fetch
C21_Witness ==
    \E e \in DOMAIN eng :
        /\ eng[e].pc = "fetch"
        /\ ~eng[e].readThrew
        /\ eng[e].cacheKey \in DOMAIN cache
        /\ now - cache[eng[e].cacheKey].timestamp >= MaxAgeHours

NoWindow(parsedQuery) ==
    /\ ~HasDate(parsedQuery.startDate)
    /\ ~HasDate(parsedQuery.endDate)
    /\ parsedQuery.days = 0

\* C22: with no startDate/endDate and no days, a monthly-billing request
\* gets the calendar month that contains today (from its first day), and
\* every other non-comparison request gets the 7 days ending today.
C22_DefaultWindows ==
    (kout.done /\ NoWindow(kin.parsedQuery)
     /\ ~isMonthComparisonRequest(kin.parsedQuery))
    => LET today == Ymd(DayOf(kin.t))
       IN  IF kin.parsedQuery.intent = "monthly billing"
           THEN /\ kout.range.start = FirstOfMonth(today.y, today.m)
                /\ kout.range.end > kout.range.start
                /\ kout.range.end <= FirstOfMonth(today.y, today.m + 1)
           ELSE /\ kout.range.end = kin.t
                /\ kout.range.start = kin.t - EngineDefaultDays * 24

\* C26: mainHandler turns away, before the handler is called, a resource
\* breakdown query whose days is outside 1..14 and a billing query whose
\* startDate is after its endDate.
C26_InvalidQueriesRejected ==
    kout.done =>
        /\ ( /\ kout.type = "resource"
             /\ kin.parsedQuery.days # 0
             /\ kin.parsedQuery.days \notin 1 .. 14 )
           => kout.route = "ValidationError"
        /\ ( /\ kout.type \in {"monthly", "daily"}
             /\ HasDate(kin.parsedQuery.startDate)
             /\ HasDate(kin.parsedQuery.endDate)
             /\ NewDateFromString(kin.parsedQuery.startDate)
                    > NewDateFromString(kin.parsedQuery.endDate) )
           => kout.route = "ValidationError"

\* C27: every cost intent of the translator is given a handler by
\* identifyIntent, and a daily-billing request reaches costReportHandler.
C27_CostIntentsAreHandled ==
    (kout.done /\ kin.parsedQuery.intent \in TranslatorIntents \ {"anomaly report"})
    => /\ kout.type # "UNKNOWN"
       /\ kin.parsedQuery.intent = "daily billing"
          => kout.route = "costReportHandler"

\* C23: nothing keeps two concurrent calls for one key from both missing
\* and both fetching and generating; each cache write replaces the whole
\* entry with the writer's data, report URL and summary, so the entry is
\* always the complete entry of the last writer.
C23_LastWriterWins ==
    [][\A e \in DOMAIN eng :
          (eng[e].pc = "setCache" /\ eng'[e] # eng[e] /\ ~CallFailed)
          => /\ DOMAIN cache' = DOMAIN cache \cup {eng[e].cacheKey}
             /\ \A k \in DOMAIN cache' :
                   cache'[k] = IF k = eng[e].cacheKey
                               THEN [data |-> eng[e].data,
                                     reportUrl |-> eng[e].reportUrl,
                                     summary |-> eng[e].summary,
                                     timestamp |-> now,
                                     ttl |-> now + MaxAgeHours]
                               ELSE cache[k] ]_vars

\* two calls for the same query, both cache reads answered, no time passed:
\* both missed, both fetched, both generated, and the entry holds the
\* report of one of them
C23_Witness ==
    /\ ticks = 0
    /\ ceCalls = 2
    /\ \E e1, e2 \in DOMAIN eng :
          /\ e1 # e2
          /\ eng[e1].parsedQuery = eng[e2].parsedQuery
          /\ \A e \in {e1, e2} :
                /\ eng[e].pc = "done"
                /\ eng[e].response.kind = "Generated"
                /\ ~eng[e].cached /\ ~eng[e].readThrew
                /\ eng[e].fetches = 1
          /\ eng[e1].response.reportUrl # eng[e2].response.reportUrl
          /\ LET cacheKey == EngineKey(eng[e1].parsedQuery, now)
             IN  /\ cacheKey \in DOMAIN cache
                 /\ cache[cacheKey].reportUrl = eng[e2].response.reportUrl
                 /\ cache[cacheKey].summary # NoStr
                 /\ cache[cacheKey].data # NoStr

\* C24: when the billing fetch fails on a synchronous path (billing or
\* comparison report), the call ends with an error answer after that one
\* fetch, and neither the cache nor the ledger is written.
C24_SyncFetchFailure ==
    /\ [][\A e \in DOMAIN eng :
            (eng[e].pc = "fetch" /\ eng'[e] # eng[e] /\ CallFailed)
            => /\ eng'[e].pc = "done"
               /\ eng'[e].response = Response("Error", NoStr, FALSE)
               /\ eng'[e].fetches = 1
               /\ ceCalls' = ceCalls + 1
               /\ cache' = cache
               /\ ledger' = ledger ]_vars
    /\ [](\A e \in DOMAIN eng :
            (eng[e].pc = "done" /\ eng[e].threw = "fetch")
            => /\ eng[e].response.kind = "Error"
               /\ eng[e].fetches = 1)

\* a comparison call whose fetch failed: nothing in either store
C24_Witness ==
    \E e \in DOMAIN eng :
        /\ eng[e].pc = "done"
        /\ eng[e].threw = "fetch"
        /\ isMonthComparisonRequest(eng[e].parsedQuery)
        /\ cache = <<>>
        /\ ledger = {}
        /\ ceCalls = 1

MissingPeriod(parsedQuery) ==
    \/ parsedQuery.period1 = NoPeriod
    \/ parsedQuery.period2 = NoPeriod
    \/ NoDate \in {parsedQuery.period1.start, parsedQuery.period1.end,
                   parsedQuery.period2.start, parsedQuery.period2.end}

\* C25: a comparison request with a period, or a start or end of a period,
\* missing is answered at once as invalid: the call reads no cache, makes
\* no fetch and writes neither cache nor ledger.
C25_MissingPeriodsRejected ==
    /\ [][\A e \in DOMAIN eng :
            ( /\ eng[e].pc \in {"idle", "done"}
              /\ eng'[e] # eng[e]
              /\ isMonthComparisonRequest(eng'[e].parsedQuery)
              /\ MissingPeriod(eng'[e].parsedQuery) )
            => /\ eng'[e].pc = "done"
               /\ eng'[e].response = Response("Invalid", NoStr, FALSE)
               /\ eng'[e].lookups = 0
               /\ eng'[e].fetches = 0
               /\ <<cache', ledger', ceCalls', faults'>>
                     = <<cache, ledger, ceCalls, faults>> ]_vars
    /\ [](\A e \in DOMAIN eng :
            ( /\ isMonthComparisonRequest(eng[e].parsedQuery)
              /\ MissingPeriod(eng[e].parsedQuery) )
            => eng[e].pc = "done")

C25_Witness ==
    \E e \in DOMAIN eng :
        /\ eng[e].pc = "done"
        /\ isMonthComparisonRequest(eng[e].parsedQuery)
        /\ eng[e].parsedQuery.period2 = NoPeriod
        /\ eng[e].response.kind = "Invalid"
        /\ eng[e].lookups = 0

\* C28: a comparison request whose two periods are equal is not turned
\* away: baseline and comparison are the same calendar month, the call
\* reads the cache under the key of that pair and, on a miss, goes on to
\* the comparison fetch with that pair.
C28_EqualPeriodsProceed ==
    [][\A e \in DOMAIN eng :
          ( /\ eng[e].pc \in {"idle", "done"}
            /\ eng'[e] # eng[e]
            /\ isMonthComparisonRequest(eng'[e].parsedQuery)
            /\ ~MissingPeriod(eng'[e].parsedQuery)
            /\ eng'[e].parsedQuery.period1 = eng'[e].parsedQuery.period2 )
          => LET month == toFullMonthPeriod(eng'[e].parsedQuery.period1)
                 pair == [baseline |-> month, comparison |-> month]
                 cacheKey == comparisonCacheKey(eng'[e].parsedQuery, pair)
             IN  /\ eng'[e].response.kind # "Invalid"
                 /\ eng'[e].lookups = 1
                 /\ IF FreshArtifact(cache, cacheKey, now)
                       /\ ~eng'[e].readThrew
                    THEN eng'[e].response.kind = "Ready"
                    ELSE /\ eng'[e].pc = "fetch"
                         /\ eng'[e].periods = pair
                         /\ eng'[e].cacheKey = cacheKey ]_vars

\* a comparison of June with June that was fetched and generated
C28_Witness ==
    \E e \in DOMAIN eng :
        /\ eng[e].pc = "done"
        /\ isMonthComparisonRequest(eng[e].parsedQuery)
        /\ eng[e].parsedQuery.period1 = eng[e].parsedQuery.period2
        /\ eng[e].response.kind = "Generated"
        /\ eng[e].fetches = 1

\* C29: toFullMonthPeriod gives the first day of the month of the period's
\* start and the first day of the month after it (January of the next year
\* after a December), whatever the period's end is, and applying it to its
\* own result changes nothing.
C29_FullMonthPeriod ==
    kout.done
    => LET start == kin.period1.start
       IN  /\ kout.full.start = [y |-> start.y, m |-> start.m, d |-> 1]
           /\ kout.full.end = IF start.m = 12
                              THEN [y |-> start.y + 1, m |-> 1, d |-> 1]
                              ELSE [y |-> start.y, m |-> start.m + 1, d |-> 1]
           /\ \A period \in Periods :
                 period.start = start => toFullMonthPeriod(period) = kout.full
           /\ kout.twice = kout.full

\* a period that starts in mid December
C29_Witness ==
    /\ kout.done
    /\ kin.period1.start = [y |-> 2024, m |-> 12, d |-> 15]
    /\ kin.period1.end = [y |-> 2025, m |-> 1, d |-> 31]
    /\ kout.full = [start |-> [y |-> 2024, m |-> 12, d |-> 1],
                    end |-> [y |-> 2025, m |-> 1, d |-> 1]]

\* C30: a ledger row's summary reads "PENDING" exactly while its reportUrl
\* reads "PENDING"; no field of a row in a terminal status holds the
\* placeholder.
C30_SummaryFollowsReportUrl ==
    \A it \in ledger :
        /\ (it.summary = "PENDING") <=> (it.reportUrl = "PENDING")
        /\ IsTerminal(it.reportUrl) => it.summary # "PENDING"

\* C31: a cache entry is a miss exactly when now > writtenAt + 12 hours: a
\* read, answered by the table, of an entry with a report URL that is at
\* most 12 hours old - exactly 12 hours included - is a hit, and the call
\* answers Ready from it.
C31_HitThroughTwelveHours ==
    [][\A e \in DOMAIN eng :
          LooksUp(e) =>
              LET cacheKey == EngineKey(eng'[e].parsedQuery, now)
              IN  ( /\ ~eng'[e].readThrew
                    /\ cacheKey \in DOMAIN cache
                    /\ Truthy(cache[cacheKey].reportUrl) )
                  => ( (now > cache[cacheKey].timestamp + MaxAgeHours)
                       <=> (eng'[e].response.kind # "Ready") ) ]_vars

\* the window a parsed query asks for, when it names one
AsksWindow(parsedQuery) ==
    \/ HasDate(parsedQuery.startDate) /\ HasDate(parsedQuery.endDate)
    \/ parsedQuery.days # 0

AskedWindow(parsedQuery, t) ==
    IF HasDate(parsedQuery.startDate) /\ HasDate(parsedQuery.endDate)
    THEN [start |-> IsoDate(NewDateFromString(parsedQuery.startDate)),
          end |-> IsoDate(NewDateFromString(parsedQuery.endDate))]
    ELSE [start |-> IsoDate(SetDateBack(t, parsedQuery.days)),
          end |-> IsoDate(t)]

\* C32: when the rule made for a scheduling request fires, the handler's
\* window is the window of the request's parsed query: its startDate and
\* endDate when it has both, otherwise its last `days` days.
C32_ScheduledWindowAsAsked ==
    (kout.pc = "ran" /\ AsksWindow(kin.parsedQuery))
    => kout.window = AskedWindow(kin.parsedQuery, kin.t)

\* the artifact URLs the system has exposed: in answers, cache entries,
\* delivered ledger rows and notifications
ExposedUrls ==
    {eng[e].response.reportUrl :
        e \in {x \in DOMAIN eng :
                 eng[x].response.kind \in {"Ready", "Generated"}}}
    \cup {cache[k].reportUrl : k \in DOMAIN cache}
    \cup {it.reportUrl : it \in {x \in ledger : IsDelivered(x.reportUrl)}}
    \cup {outbox[i].reportUrl : i \in DOMAIN outbox}

\* C33: every artifact URL in an answer (Ready or Generated), in a cache
\* entry, in a delivered ledger row or in a notification is the URL of an
\* object whose put into the reports bucket has completed; objects are
\* never taken out again by the system.
C33_UrlsReferToStoredArtifacts ==
    /\ [](ExposedUrls \subseteq store)
    /\ [][store \subseteq store']_vars

\* a Processor report cached, notified and recorded, and an Engine report
\* answered and cached
C33_Witness ==
    /\ \E it \in ledger : IsDelivered(it.reportUrl) /\ it.reportUrl \in store
    /\ \E i \in DOMAIN outbox : outbox[i].reportUrl \in store
    /\ \E e \in DOMAIN eng :
          /\ eng[e].response.kind = "Generated"
          /\ eng[e].response.reportUrl \in store
          /\ \E k \in DOMAIN cache :
                cache[k].reportUrl = eng[e].response.reportUrl
    /\ Cardinality(store) = 2

\* C34: every cache entry carries a report URL (and the data it was made
\* from), so a call never takes the Engine's branch for a hit without a
\* URL: it generates only from data it has fetched itself.
C34_CacheEntriesHaveArtifact ==
    /\ \A k \in DOMAIN cache :
          /\ Truthy(cache[k].reportUrl)
          /\ Truthy(cache[k].data)
    /\ \A e \in DOMAIN eng :
          eng[e].pc = "generate" => eng[e].fetches = 1

\* one entry written by the Processor and one written by the Engine
C34_Witness ==
    \E k1, k2 \in DOMAIN cache :
        /\ k1 # k2
        /\ \E it \in ledger : cache[k1].reportUrl = it.reportUrl
        /\ \E e \in DOMAIN eng :
              /\ eng[e].response.kind = "Generated"
              /\ cache[k2].reportUrl = eng[e].response.reportUrl

\* C35: the Processor never triggers itself. A step of the Processor adds
\* no ledger row, changes no row but the one of the requestId it is
\* handling, and adds no INSERT record to the change feed; and once callers
\* stop making requests the Processor runs out of work: the system comes to
\* rest with the feed consumed, and stays there.
C35_ProcessorNeverTriggersItself ==
    /\ [][ProcessorStep =>
            /\ RequestIds' = RequestIds
            /\ \A it \in ledger' \ ledger : it.requestId = proc.requestId
            /\ \A i \in DOMAIN stream' \ DOMAIN stream :
                  stream'[i].eventName # "INSERT"
            /\ \A i \in DOMAIN stream : stream'[i] = stream[i] ]_vars
    /\ <>[]Quiescent

\* at rest after the Processor's own update went through the feed as a
\* MODIFY record and was passed over
C35_Witness ==
    /\ Quiescent
    /\ \E i \in DOMAIN stream :
          /\ stream[i].eventName = "MODIFY"
          /\ IsTerminal(stream[i].NewImage.reportUrl)
          /\ i <= shard.pos

\* the same invocation turns to the next record of its batch
GoesOnWithBatch ==
    /\ proc'.pc = "record"
    /\ proc'.i = proc.i + 1
    /\ proc'.from = proc.from /\ proc'.to = proc.to
    /\ shard' = shard

\* the handler is done with a record that the guards skip
SkipsInBatch ==
    /\ proc.pc = "record"
    /\ ProcessorStep
    /\ NotForProcessing(stream[proc.i])

\* a failed billing fetch takes the handler to its catch, in the same batch
FetchFailureIsCaught ==
    (proc.pc = "fetch" /\ ProcessorStep /\ CallFailed)
    => /\ proc'.pc = "updateError"
       /\ proc'.i = proc.i
       /\ proc'.from = proc.from /\ proc'.to = proc.to
       /\ shard' = shard

BothDates(parsedQuery) ==
    HasDate(parsedQuery.startDate) /\ HasDate(parsedQuery.endDate)

\* C37: one source determines the window. With both startDate and endDate
\* the window is those two dates, whatever days and intent are. With at
\* most one of them the date given plays no part: the window is the month
\* default when the intent contains "month" (whatever days is), otherwise
\* the last `days` days ending now, or the last 7 days when days is absent.
C37_WindowPrecedence ==
    kout.done =>
        LET parsedQuery == kin.parsedQuery
            today == Ymd(DayOf(kin.t))
        IN  IF BothDates(parsedQuery)
            THEN /\ kout.range
                       = [start |-> NewDateFromString(parsedQuery.startDate),
                          end |-> NewDateFromString(parsedQuery.endDate)]
                 /\ \A other \in RequestQueries :
                       ( /\ other.startDate = parsedQuery.startDate
                         /\ other.endDate = parsedQuery.endDate )
                       => getDateRange(other, kin.t) = kout.range
            ELSE /\ \A other \in RequestQueries :
                       ( /\ ~BothDates(other)
                         /\ other.intent = parsedQuery.intent
                         /\ other.days = parsedQuery.days )
                       => getDateRange(other, kin.t) = kout.range
                 /\ IF Includes(parsedQuery.intent, "month")
                    THEN /\ Ymd(DayOf(kout.range.end))
                               = [y |-> today.y, m |-> today.m, d |-> 1]
                         /\ kout.range.start
                               = FirstOfMonth(today.y, today.m - 1)
                         /\ kout.range.end % 24 = 0
                    ELSE IF parsedQuery.days # 0
                    THEN kout.range = [start |-> kin.t - 24 * parsedQuery.days,
                                       end |-> kin.t]
                    ELSE kout.range = [start |-> kin.t - 24 * 7,
                                       end |-> kin.t]

\* a monthly request that names only a start date and a number of days
C37_Witness ==
    /\ kout.done
    /\ Includes(kin.parsedQuery.intent, "month")
    /\ HasDate(kin.parsedQuery.startDate)
    /\ ~HasDate(kin.parsedQuery.endDate)
    /\ kin.parsedQuery.days = 7
    /\ IsoDate(kout.range.start) = "2024-05-01"
    /\ IsoDate(kout.range.end) = "2024-06-01"

====
